---- MODULE Spec2Model ----
(***************************************************************************)
(* Model of one SMTP session of mhale/smtpd (smtpd.go): the command loop   *)
(* of session.serve, the data reader, the STARTTLS upgrade and the         *)
(* goroutines that run the message handler.                                *)
(*                                                                         *)
(* Bytes are modelled as cells: a body line is a sequence of one-character *)
(* strings ending in "\r", "\n"; the Received header is one cell that      *)
(* records the fields the session contributes (remoteName and to[0]).      *)
(***************************************************************************)
EXTENDS Integers, Sequences, FiniteSets, TLC

VARIABLES
    srv,        \* Server fields read by the session; ConfigureTLS() and
                \* ListenAndServe() write them
    env,        \* envelope of what the client sends in this run
    remoteName, \* session.remoteName
    tls,        \* session.tls
    from,       \* serve(): var from string
    gotFrom,    \* serve(): var gotFrom bool
    to,         \* serve(): var to []string, its elements
    toNil,      \* serve(): to == nil
    buffer,     \* serve(): var buffer bytes.Buffer, [bytes, cap]
    data,       \* readData(): var data []byte
    pc,         \* where serve() is blocked
    handlers,   \* running goroutines "go s.srv.Handler(...)"
    last,       \* the line just consumed and the reply written for it:
                \*   rdeadline  the line was read under a read deadline
                \*   wdeadline  the reply was written under a write deadline
                \*   next       the read the session waits in, or the one it
                \*              starts next, has a read deadline
    tick,       \* parity of the number of read/handshake results consumed
    werr,       \* session.bw holds a write error (bufio.Writer keeps the first)
    br,         \* session.br: lines read from the connection and not yet
                \* returned by ReadString / ReadBytes
    sock,       \* lines the client has sent that s.br has not read yet
    hist        \* history of the connection, read by the properties only:
                \*   mail      a MAIL was accepted since the last reset point
                \*   rcpt      a RCPT was accepted since the last reset point
                \*   rcptMail  a RCPT was accepted since the last MAIL command
                \*             or reset point
                \*   sent      a DATA ended with 250 on this connection
                \*   hsFailed  a STARTTLS handshake failed on this connection
                \*   upgraded  a STARTTLS handshake succeeded on this connection
                \*   mfrom     reverse-path of the last MAIL accepted since the
                \*             last reset point ("" if none)
                \*   accepted  recipients accepted since the last MAIL command
                \*             or reset point, in order
                \*   dropped   a rejected MAIL discarded recipients accepted
                \*             after the last accepted MAIL
                \*   raw       body lines read in the data phase, as received
                \*   cfgTimeout  Server.Timeout as configured, before
                \*             ListenAndServe() or Serve() is called

vars == <<srv, env, remoteName, tls, from, gotFrom, to, toNil, buffer, data,
          pc, handlers, last, tick, werr, br, sock, hist>>

----------------------------------------------------------------------------
(* Bounds of the model *)

MaxTo == 2          \* recipients the client tries per transaction in Spec
MaxBodyLines == 2   \* body lines the client sends before the terminator
MaxRunning == 1     \* handler goroutines alive when a DATA starts
MaxAliasRun == 2    \* the same, in SpecAlias and SpecLive
CapSlack == 1       \* extra capacity the runtime may give a grown buffer

(* Program constants *)

RcptLimit == 100

\* Variant: HELO is let through the gate as well.
allowedCmdsWithHELO == {"NOOP", "EHLO", "HELO", "STARTTLS", "QUIT"}

allowedCmds == {"NOOP", "EHLO", "STARTTLS", "QUIT"}

----------------------------------------------------------------------------
(* Input domains *)

Names == {"", "h"}
Senders == {"", "a"}
Rcpts == {"r1", "r2"}
CRLF == <<"\r", "\n">>
DotLine == <<".">> \o CRLF
PlainLine == <<"x">> \o CRLF
BodyLines == {PlainLine, <<".", ".">> \o CRLF}
\* "..x\r\n", and ".\n": a dot line that is not the terminator.
DotDotX == <<".", ".", "x">> \o CRLF
DotLF == <<".", "\n">>
StuffedLines == BodyLines \cup {DotDotX, DotLF}
HelpVerbs == {"HELP", "VRFY", "EXPN"}
OtherVerbs == {"TEST", ""}

\* What mailFromRE / mailSizeRE / strconv.Atoi make of a MAIL argument.
MailArgs ==
    {[kind |-> "nomatch", addr |-> "", size |-> 0]}
    \cup [kind : {"noparam", "badparam", "overflow"}, addr : Senders, size : {0}]
    \cup [kind : {"size"}, addr : Senders, size : {1, 9}]

\* Command lines as bytes: a verb in some spelling, a separator, an argument
\* and the end of the line.
VerbSpellings ==
    {<<"m", "a", "i", "l">>, <<"M", "a", "i", "l">>, <<"M", "A", "I", "L">>,
     <<"n", "o", "o", "p">>, <<"N", "O", "O", "P">>, <<>>}

Separators == {<<>>, <<" ">>, <<" ", " ">>, <<"\t">>}

ArgSpellings == {<<>>, <<"x">>, <<"X", " ", "x">>, <<"x", "\t">>}

LineEnds == {CRLF, <<"\n">>}

RawLines ==
    {v \o sp \o a \o e : v \in VerbSpellings, sp \in Separators,
                          a \in ArgSpellings, e \in LineEnds}

\* The lines of a pipelining client.
MailLine ==
    <<"M", "A", "I", "L", " ", "F", "R", "O", "M", ":", "<", "a", ">">> \o CRLF
RcptLine ==
    <<"R", "C", "P", "T", " ", "T", "O", ":", "<", "r1", ">">> \o CRLF
DataLine == <<"D", "A", "T", "A">> \o CRLF
LongLine == <<"x", "x">> \o CRLF
RsetLine == <<"R", "S", "E", "T">> \o CRLF
QuitLine == <<"Q", "U", "I", "T">> \o CRLF

\* A message whose body is refused for its size, with a RSET as its second
\* body line and a QUIT after the terminator.
ScriptTooBig ==
    <<MailLine, RcptLine, DataLine, LongLine, RsetLine, DotLine, QuitLine>>

\* The same with a MAIL and a QUIT as body lines.
ScriptMailInBody ==
    <<MailLine, RcptLine, DataLine, LongLine, MailLine, QuitLine, DotLine>>

\* A message that is accepted, and a QUIT.
ScriptFits == <<MailLine, RcptLine, DataLine, PlainLine, DotLine, QuitLine>>

PipeLines == {LongLine, PlainLine, RsetLine}

\* What rcptToRE makes of a RCPT argument.
RcptArgs == [ok : {FALSE}, addr : {""}] \cup [ok : {TRUE}, addr : Rcpts]

----------------------------------------------------------------------------
(* Server configurations *)

Server(tc, tr, ms, h, hr, tmo) ==
    [TLSConfig |-> tc, TLSRequired |-> tr, MaxSize |-> ms,
     Handler |-> h, HandlerRcpt |-> hr, Timeout |-> tmo]

Envelope(ns, ss, rs, ls, mt, mr, sl) ==
    [names |-> ns, senders |-> ss, rcpts |-> rs, lines |-> ls, maxTo |-> mt,
     maxRun |-> mr, slack |-> sl, wfault |-> FALSE, via |-> "Serve",
     wire |-> <<>>, script |-> <<>>, maxLines |-> MaxBodyLines]

\* The same client with bodies of at most one line.
OneLineBodies(e) == [e EXCEPT !.maxLines = 1]

\* The same client on a connection whose writes may start to fail.
Faulty(e) == [e EXCEPT !.wfault = TRUE]

\* A client that sends the lines of `lines` without waiting for replies.  The
\* client of an envelope without a script sends a line only when the session
\* reads one.
Pipelined(e, lines) == [e EXCEPT !.script = lines]

\* A client that sends the bytes of one command line.
OnWire(e, l) == [e EXCEPT !.wire = l]

\* The same client on a server that is started with ListenAndServe()
\* instead of Serve().
ViaListenAndServe(e) == [e EXCEPT !.via = "ListenAndServe"]

\* if srv.Timeout == 0 { srv.Timeout = 5 * time.Minute }; Timeout counts
\* minutes.
ListenAndServe(s) == IF s.Timeout = 0 THEN [s EXCEPT !.Timeout = 5] ELSE s

\* Variant: a read deadline is set whatever the timeout.
DeadlineSetAlways == TRUE

\* if s.srv.Timeout > 0 { s.conn.SetReadDeadline(...) }
DeadlineSet == srv.Timeout > 0

----------------------------------------------------------------------------
(* bytes.Buffer: the bytes written and the capacity of the backing array.  *)
(* A handler goroutine holds the slice buffer.Bytes() returned: "view" is  *)
(* what that slice reads now, "shared" whether its array still backs the   *)
(* session's buffer, "data" the bytes it was handed.                       *)

BufReset(b) == [b EXCEPT !.bytes = <<>>]

Overwrite(view, n, p) ==
    [k \in DOMAIN view |-> IF k > n /\ k <= n + Len(p) THEN p[k - n] ELSE view[k]]

\* st = [b |-> buffer, hs |-> handlers]; newcap is the capacity the runtime
\* picks if the write has to grow the array.
BufWrite(st, p, newcap) ==
    LET n == Len(st.b.bytes) IN
    IF n + Len(p) <= st.b.cap
    THEN [b |-> [st.b EXCEPT !.bytes = @ \o p],
          hs |-> [i \in DOMAIN st.hs |->
                    IF st.hs[i].shared
                    THEN [st.hs[i] EXCEPT !.view = Overwrite(@, n, p)]
                    ELSE st.hs[i]]]
    ELSE [b |-> [bytes |-> st.b.bytes \o p, cap |-> newcap],
          hs |-> [i \in DOMAIN st.hs |-> [st.hs[i] EXCEPT !.shared = FALSE]]]

\* The three lines of the header as one cell: s.remoteName and to[0].
makeHeaders(rcpts) == << [received |-> remoteName, for |-> rcpts[1]] >>

----------------------------------------------------------------------------
(* Lines: readLine, parseLine and the regular expressions *)

\* unicode.IsSpace on the bytes of the model.
IsSpace(c) == c \in {" ", "\t", "\r", "\n"}

RECURSIVE TrimLeft(_)
TrimLeft(str) ==
    IF str # <<>> /\ IsSpace(Head(str)) THEN TrimLeft(Tail(str)) ELSE str

RECURSIVE TrimRight(_)
TrimRight(str) ==
    IF str # <<>> /\ IsSpace(str[Len(str)])
    THEN TrimRight(SubSeq(str, 1, Len(str) - 1)) ELSE str

\* strings.TrimSpace
TrimSpace(str) == TrimRight(TrimLeft(str))

\* strings.Index(line, " "), counted from 1; 0 stands for Go's -1.
IndexSpace(line) ==
    IF \E i \in DOMAIN line : line[i] = " "
    THEN CHOOSE i \in DOMAIN line :
             line[i] = " " /\ \A j \in 1..(i - 1) : line[j] # " "
    ELSE 0

\* unicode.ToUpper on the letters of the model.
UpperRune(c) ==
    CASE c = "a" -> "A" [] c = "i" -> "I" [] c = "l" -> "L" [] c = "m" -> "M"
      [] c = "n" -> "N" [] c = "o" -> "O" [] c = "p" -> "P" [] c = "x" -> "X"
      [] c = "e" -> "E" [] c = "f" -> "F" [] c = "r" -> "R" [] c = "s" -> "S"
      [] c = "t" -> "T" [] c = "z" -> "Z"
      [] OTHER -> c

\* strings.ToUpper
ToUpper(str) == [i \in DOMAIN str |-> UpperRune(str[i])]

\* Variant: the verb is taken as it was spelled.
parseLineAsSpelled(line) ==
    LET idx == IndexSpace(line) IN
    IF idx # 0
    THEN [verb |-> SubSeq(line, 1, idx - 1),
          args |-> TrimSpace(SubSeq(line, idx + 1, Len(line)))]
    ELSE [verb |-> line, args |-> <<>>]

\* parseLine(line)
parseLine(line) ==
    LET idx == IndexSpace(line) IN
    IF idx # 0
    THEN [verb |-> ToUpper(SubSeq(line, 1, idx - 1)),
          args |-> TrimSpace(SubSeq(line, idx + 1, Len(line)))]
    ELSE [verb |-> ToUpper(line), args |-> <<>>]

\* switch verb: the case that a verb selects.
SwitchCase(verb) ==
    IF verb = <<"H", "E", "L", "O">> THEN "HELO"
    ELSE IF verb = <<"E", "H", "L", "O">> THEN "EHLO"
    ELSE IF verb = <<"M", "A", "I", "L">> THEN "MAIL"
    ELSE IF verb = <<"R", "C", "P", "T">> THEN "RCPT"
    ELSE IF verb = <<"D", "A", "T", "A">> THEN "DATA"
    ELSE IF verb = <<"Q", "U", "I", "T">> THEN "QUIT"
    ELSE IF verb = <<"R", "S", "E", "T">> THEN "RSET"
    ELSE IF verb = <<"N", "O", "O", "P">> THEN "NOOP"
    ELSE IF verb = <<"H", "E", "L", "P">> THEN "HELP"
    ELSE IF verb = <<"V", "R", "F", "Y">> THEN "VRFY"
    ELSE IF verb = <<"E", "X", "P", "N">> THEN "EXPN"
    ELSE IF verb = <<"S", "T", "A", "R", "T", "T", "L", "S">> THEN "STARTTLS"
    ELSE "default"

\* A name or an address of a line is one cell of it: the string that the
\* cells of a submatch stand for.
CellName(cells) ==
    IF cells = <<>> THEN "" ELSE IF Len(cells) = 1 THEN cells[1] ELSE "other"

\* The cells of str from position i on spell pat, letters in either case.
FoldedAt(str, i, pat) ==
    /\ i + Len(pat) - 1 <= Len(str)
    /\ \A k \in DOMAIN pat : UpperRune(str[i + k - 1]) = pat[k]

\* rcptToRE.FindStringSubmatch(args), `[Tt][Oo]:<(.+)>`: the leftmost
\* "to:<" that is followed by a cell and a ">", up to the last ">".
rcptToRE(args) ==
    LET starts == {i \in DOMAIN args :
                     /\ FoldedAt(args, i, <<"T", "O", ":", "<">>)
                     /\ \E j \in (i + 5)..Len(args) : args[j] = ">"}
    IN  IF starts = {} THEN [ok |-> FALSE, addr |-> ""]
        ELSE LET i == CHOOSE x \in starts : \A y \in starts : x <= y
                 j == CHOOSE x \in (i + 5)..Len(args) :
                          /\ args[x] = ">"
                          /\ \A y \in (x + 1)..Len(args) : args[y] # ">"
             IN  [ok |-> TRUE, addr |-> CellName(SubSeq(args, i + 4, j - 1))]

DigitCells == <<"0", "1", "2", "3", "4", "5", "6", "7", "8", "9">>

IsDigit(c) == \E d \in DOMAIN DigitCells : DigitCells[d] = c

\* strconv.Atoi on a run of digits short enough for an int.
RECURSIVE Atoi(_)
Atoi(ds) ==
    IF ds = <<>> THEN 0
    ELSE 10 * Atoi(SubSeq(ds, 1, Len(ds) - 1))
         + (CHOOSE d \in DOMAIN DigitCells : DigitCells[d] = ds[Len(ds)]) - 1

\* mailSizeRE.FindStringSubmatch(param), `[Ss][Ii][Zz][Ee]=(\d+)`: the digits
\* after the leftmost "size=" that a digit follows; <<>> if there is none.
mailSizeRE(param) ==
    LET starts == {i \in DOMAIN param :
                     /\ FoldedAt(param, i, <<"S", "I", "Z", "E", "=">>)
                     /\ i + 5 <= Len(param) /\ IsDigit(param[i + 5])}
    IN  IF starts = {} THEN <<>>
        ELSE LET i == CHOOSE x \in starts : \A y \in starts : x <= y
                 e == CHOOSE x \in (i + 5)..Len(param) :
                          /\ \A y \in (i + 5)..x : IsDigit(param[y])
                          /\ x = Len(param) \/ ~IsDigit(param[x + 1])
             IN  SubSeq(param, i + 5, e)

\* mailFromRE.FindStringSubmatch(args), `[Ff][Rr][Oo][Mm]:<(.*)>(\s(.*))?`,
\* and what case "MAIL" makes of the parameters: the reverse-path runs from
\* the leftmost "from:<" to the last ">", the parameters are what follows
\* a white space after it.
mailFromRE(args) ==
    LET starts == {i \in DOMAIN args :
                     /\ FoldedAt(args, i, <<"F", "R", "O", "M", ":", "<">>)
                     /\ \E j \in (i + 6)..Len(args) : args[j] = ">"}
    IN  IF starts = {} THEN [kind |-> "nomatch", addr |-> "", size |-> 0]
        ELSE LET i == CHOOSE x \in starts : \A y \in starts : x <= y
                 j == CHOOSE x \in (i + 6)..Len(args) :
                          /\ args[x] = ">"
                          /\ \A y \in (x + 1)..Len(args) : args[y] # ">"
                 addr == CellName(SubSeq(args, i + 6, j - 1))
                 hasParam == j < Len(args) /\ IsSpace(args[j + 1])
                 digits == mailSizeRE(SubSeq(args, j + 2, Len(args)))
             IN  IF ~hasParam
                 THEN [kind |-> "noparam", addr |-> addr, size |-> 0]
                 ELSE IF digits = <<>>
                 THEN [kind |-> "badparam", addr |-> addr, size |-> 0]
                 ELSE [kind |-> "size", addr |-> addr, size |-> Atoi(digits)]


----------------------------------------------------------------------------
(* Pieces of session.serve *)

\* Variant: the gate is lifted once a handshake has been tried.
GatedUntilHandshake(verb) ==
    /\ srv.TLSConfig /\ srv.TLSRequired /\ ~tls /\ ~hist.hsFailed
    /\ verb \notin allowedCmds

\* if s.srv.TLSConfig != nil && s.srv.TLSRequired == true && s.tls == false
Gated(verb) ==
    srv.TLSConfig /\ srv.TLSRequired /\ ~tls /\ verb \notin allowedCmds

NoArg == [kind |-> "none"]

\* The line (or read result) consumed and the reply code written for it;
\* code 0 stands for no reply.  readLine() and readData() decide on the read
\* deadline before they wait for the line, so the line was read under the
\* deadline decided at the end of the step before (last.next); writef()
\* decides on the write deadline when the reply is written; then the loop
\* enters the next read and decides again.  After "220 Ready to start TLS"
\* the session enters no read of its own: the handshake reads under the
\* deadline the connection has.
Consume(verb, arg, code) ==
    /\ last' = [verb |-> verb, arg |-> arg, code |-> code,
                rdeadline |-> last.next,
                wdeadline |-> code # 0 /\ DeadlineSet,
                next |-> IF verb = "STARTTLS" /\ code = 220
                         THEN last.next ELSE DeadlineSet]
    /\ tick' = 1 - tick

\* writef(): Fprintf into s.bw and Flush; the error is returned and no caller
\* looks at it.  Once a Flush has failed the bufio.Writer fails every later
\* write.
Writef ==
    werr' \in IF werr THEN {TRUE}
              ELSE IF env.wfault THEN BOOLEAN ELSE {FALSE}

Reply(verb, arg, code) ==
    /\ Consume(verb, arg, code)
    /\ IF code = 0 THEN werr' = werr ELSE Writef

\* Variant: the list is emptied in place, to = to[:0].
TruncateTo ==
    /\ to' = <<>>
    /\ toNil' = toNil

\* to = nil
NilTo ==
    /\ to' = <<>>
    /\ toNil' = TRUE

\* Variant: the reset forgets `to = nil`.
ResetTxKeepsRcpts ==
    /\ from' = ""
    /\ gotFrom' = FALSE
    /\ to' = to
    /\ toNil' = toNil
    /\ buffer' = BufReset(buffer)

\* from = ""; gotFrom = false; to = nil; buffer.Reset()
ResetTx ==
    /\ from' = ""
    /\ gotFrom' = FALSE
    /\ NilTo
    /\ buffer' = BufReset(buffer)

\* What a reset point does to the history.
ResetHist(h) ==
    [h EXCEPT !.mail = FALSE, !.rcpt = FALSE, !.rcptMail = FALSE,
              !.mfrom = "", !.accepted = <<>>, !.dropped = FALSE, !.raw = <<>>]

Refuse530(verb, arg) ==
    /\ Reply(verb, arg, 530)
    /\ UNCHANGED <<remoteName, tls, from, gotFrom, to, toNil, buffer, data, pc,
                   handlers, hist>>

\* The verb of a line as the switch sees it; "TEST" stands for every verb
\* without a case of its own.
LineVerb(line) ==
    LET v == parseLine(TrimSpace(line)).verb IN
    IF v = <<>> THEN ""
    ELSE IF SwitchCase(v) = "default" THEN "TEST" ELSE SwitchCase(v)

\* What the case of its verb makes of the argument of a line.
LineArg(line) ==
    LET a == parseLine(TrimSpace(line)).args
        v == LineVerb(line)
    IN  IF v \in {"HELO", "EHLO"} THEN [name |-> CellName(a)]
        ELSE IF v = "MAIL" THEN mailFromRE(a)
        ELSE IF v = "RCPT" THEN rcptToRE(a)
        ELSE NoArg

\* s.br holds a line, and as a command it reads verb and arg.
Spells(line, verb, arg) ==
    /\ LineVerb(line) = verb
    /\ LET la == LineArg(line) IN
       /\ DOMAIN la \subseteq DOMAIN arg
       /\ \A f \in DOMAIN la : la[f] = arg[f]

\* What is left in s.br once its first line has been returned.
Rest == IF env.script = <<>> THEN br ELSE Tail(br)

\* readLine() returns the command line that reads verb and arg.
TakeLine(verb, arg) ==
    /\ env.script # <<>> => (br # <<>> /\ Spells(Head(br), verb, arg))
    /\ br' = Rest
    /\ sock' = sock

\* ReadBytes('\n') in readData() returns `line`.
TakesBody(line) == env.script # <<>> => (br # <<>> /\ Head(br) = line)

\* One iteration of the loop for a line whose verb is `verb`: the
\* TLS-required gate, then the switch case `body`.
Dispatch(verb, arg, body) ==
    /\ UNCHANGED <<srv, env>>
    /\ TakeLine(verb, arg)
    /\ IF Gated(verb) THEN Refuse530(verb, arg) ELSE body

\* Variant: RCPT tests the reverse-path instead of gotFrom.
RcptGuardNonEmptyFrom == from # ""

RcptGuard == gotFrom

\* Variant: the cap is tested one recipient too late.
TooManyRcptsOffByOne(n) == n > RcptLimit

\* if len(to) == 100
TooManyRcpts(n) == n = RcptLimit

\* Variant: DATA tests the sender only.
DataGuardSenderOnly == gotFrom

\* !(!gotFrom || to == nil)
DataGuard == gotFrom /\ ~toNil

\* Variant: the new recipient is put in front of the list.
AddRcptFront(t, a) == <<a>> \o t

\* to = append(to, match[1])
AddRcpt(t, a) == Append(t, a)

\* Variant: a MAIL in an open transaction is a sequence error.
MailCodeOnce(arg) ==
    IF gotFrom THEN 503
    ELSE IF arg.kind = "nomatch" THEN 501
    ELSE IF arg.kind = "noparam" THEN 250
    ELSE IF arg.kind \in {"badparam", "overflow"} THEN 501
    ELSE IF srv.MaxSize > 0 /\ arg.size > srv.MaxSize THEN 552
    ELSE 250

\* case "MAIL": the reply code for an argument.
MailCode(arg) ==
    IF arg.kind = "nomatch" THEN 501
    ELSE IF arg.kind = "noparam" THEN 250
    ELSE IF arg.kind \in {"badparam", "overflow"} THEN 501
    ELSE IF srv.MaxSize > 0 /\ arg.size > srv.MaxSize THEN 552
    ELSE 250

----------------------------------------------------------------------------
(* Actions: one per verb, read result or goroutine step *)

CmdHELO(name) ==
    /\ pc = "cmd"
    /\ name \in env.names
    /\ Dispatch("HELO", [name |-> name],
        /\ remoteName' = name
        /\ Reply("HELO", [name |-> name], 250)
        /\ ResetTx
        /\ hist' = ResetHist(hist)
        /\ UNCHANGED <<tls, data, pc, handlers>>)

\* Variant: STARTTLS is listed whenever TLS is configured.
ListsSTARTTLSAlways == srv.TLSConfig

\* if s.srv.TLSConfig != nil && s.tls == false
ListsSTARTTLS == srv.TLSConfig /\ ~tls

\* Variant: the response ends with a line break of its own.
makeEHLOResponseNewline(name) ==
    <<"250-", "greets", name>> \o CRLF
    \o <<"250-", "SIZE", ToString(srv.MaxSize)>> \o CRLF
    \o (IF ListsSTARTTLS THEN <<"250-", "STARTTLS">> \o CRLF ELSE <<>>)
    \o <<"250 ", "ENHANCEDSTATUSCODES">> \o CRLF

\* The response as cells: "250-" or "250 ", then the words of the line;
\* name is s.remoteName, just set from the argument.
makeEHLOResponse(name) ==
    <<"250-", "greets", name>> \o CRLF
    \o <<"250-", "SIZE", ToString(srv.MaxSize)>> \o CRLF
    \o (IF ListsSTARTTLS THEN <<"250-", "STARTTLS">> \o CRLF ELSE <<>>)
    \o <<"250 ", "ENHANCEDSTATUSCODES">>

\* case "EHLO"; resp is what writef puts on the wire, format + "\r\n".
CmdEHLO(name) ==
    /\ pc = "cmd"
    /\ name \in env.names
    /\ Dispatch("EHLO", [name |-> name],
        /\ remoteName' = name
        /\ Reply("EHLO", [name |-> name,
                          resp |-> makeEHLOResponse(name) \o CRLF], 250)
        /\ ResetTx
        /\ hist' = ResetHist(hist)
        /\ UNCHANGED <<tls, data, pc, handlers>>)

\* Variant: a MAIL that is refused ends the open transaction.
CmdMAILRejectResets(arg) ==
    /\ pc = "cmd"
    /\ arg.addr \in env.senders \cup {""}
    /\ Dispatch("MAIL", arg,
        /\ Reply("MAIL", arg, MailCode(arg))
        /\ IF MailCode(arg) = 250
           THEN from' = arg.addr /\ gotFrom' = TRUE
           ELSE from' = "" /\ gotFrom' = FALSE
        /\ NilTo
        /\ buffer' = BufReset(buffer)
        /\ hist' = [hist EXCEPT
                      !.mail = @ \/ MailCode(arg) = 250,
                      !.rcptMail = FALSE,
                      !.mfrom = IF MailCode(arg) = 250 THEN arg.addr ELSE @,
                      !.accepted = <<>>,
                      !.dropped = IF MailCode(arg) = 250 THEN FALSE
                                  ELSE @ \/ hist.accepted # <<>>]
        /\ UNCHANGED <<remoteName, tls, data, pc, handlers>>)

\* case "MAIL"
CmdMAIL(arg) ==
    /\ pc = "cmd"
    /\ arg.addr \in env.senders \cup {""}
    /\ Dispatch("MAIL", arg,
        /\ Reply("MAIL", arg, MailCode(arg))
        /\ IF MailCode(arg) = 250
           THEN from' = arg.addr /\ gotFrom' = TRUE
           ELSE UNCHANGED <<from, gotFrom>>
        /\ NilTo
        /\ buffer' = BufReset(buffer)
        /\ hist' = [hist EXCEPT
                      !.mail = @ \/ MailCode(arg) = 250,
                      !.rcptMail = FALSE,
                      !.mfrom = IF MailCode(arg) = 250 THEN arg.addr ELSE @,
                      !.accepted = <<>>,
                      !.dropped = IF MailCode(arg) = 250 THEN FALSE
                                  ELSE @ \/ hist.accepted # <<>>]
        /\ UNCHANGED <<remoteName, tls, data, pc, handlers>>)

\* Variant: the hook's answer is not looked at.
HookAcceptsAlways(hook) == TRUE

\* accept := true; if s.srv.HandlerRcpt != nil { accept = HandlerRcpt(...) }
HookAccepts(hook) == IF srv.HandlerRcpt THEN hook ELSE TRUE

\* Variant: a RCPT that is refused drops the recipients accepted so far.
CmdRCPTRejectClears(arg, hook) ==
    /\ pc = "cmd"
    /\ arg.ok => arg.addr \in env.rcpts
    /\ hook \in (IF srv.HandlerRcpt THEN BOOLEAN ELSE {TRUE})
    /\ Len(to) < env.maxTo
    /\ Dispatch("RCPT", [ok |-> arg.ok, addr |-> arg.addr, hook |-> hook],
        LET accept == HookAccepts(hook)
            code == IF ~RcptGuard THEN 503
                    ELSE IF ~arg.ok THEN 501
                    ELSE IF TooManyRcpts(Len(to)) THEN 452
                    ELSE IF accept THEN 250
                    ELSE 550
        IN  /\ Reply("RCPT", [ok |-> arg.ok, addr |-> arg.addr, hook |-> hook], code)
            /\ to' = IF code = 250 THEN AddRcpt(to, arg.addr)
                     ELSE IF code = 503 THEN to ELSE <<>>
            /\ toNil' = IF code = 250 THEN FALSE
                        ELSE IF code = 503 THEN toNil ELSE TRUE
            /\ hist' = [hist EXCEPT
                          !.rcpt = @ \/ code = 250,
                          !.rcptMail = @ \/ code = 250,
                          !.accepted = IF code = 250 THEN Append(@, arg.addr)
                                       ELSE @]
            /\ UNCHANGED <<remoteName, tls, from, gotFrom, buffer, data, pc,
                           handlers>>)

\* case "RCPT"; hook is what HandlerRcpt returns if it is called.
CmdRCPT(arg, hook) ==
    /\ pc = "cmd"
    /\ arg.ok => arg.addr \in env.rcpts
    /\ hook \in (IF srv.HandlerRcpt THEN BOOLEAN ELSE {TRUE})
    /\ Len(to) < env.maxTo
    /\ Dispatch("RCPT", [ok |-> arg.ok, addr |-> arg.addr, hook |-> hook],
        LET accept == HookAccepts(hook)
            code == IF ~RcptGuard THEN 503
                    ELSE IF ~arg.ok THEN 501
                    ELSE IF TooManyRcpts(Len(to)) THEN 452
                    ELSE IF accept THEN 250
                    ELSE 550
        IN  /\ Reply("RCPT", [ok |-> arg.ok, addr |-> arg.addr, hook |-> hook], code)
            /\ to' = IF code = 250 THEN AddRcpt(to, arg.addr) ELSE to
            /\ toNil' = IF code = 250 THEN FALSE ELSE toNil
            /\ hist' = [hist EXCEPT
                          !.rcpt = @ \/ code = 250,
                          !.rcptMail = @ \/ code = 250,
                          !.accepted = IF code = 250 THEN Append(@, arg.addr)
                                       ELSE @]
            /\ UNCHANGED <<remoteName, tls, from, gotFrom, buffer, data, pc,
                           handlers>>)

\* Variant: DATA is a sequence error until the client has given a name.
CmdDATANeedsHelo ==
    /\ pc = "cmd"
    /\ DataGuard => Len(handlers) < env.maxRun
    /\ Dispatch("DATA", NoArg,
        IF ~(DataGuard /\ remoteName # "")
        THEN /\ Reply("DATA", NoArg, 503)
             /\ UNCHANGED <<remoteName, tls, from, gotFrom, to, toNil, buffer,
                            data, pc, handlers, hist>>
        ELSE /\ Reply("DATA", NoArg, 354)
             /\ pc' = "data"
             /\ data' = <<>>
             /\ UNCHANGED <<remoteName, tls, from, gotFrom, to, toNil, buffer,
                            handlers, hist>>)

\* case "DATA", up to the call of readData()
CmdDATA ==
    /\ pc = "cmd"
    /\ DataGuard => Len(handlers) < env.maxRun
    /\ Dispatch("DATA", NoArg,
        IF ~DataGuard
        THEN /\ Reply("DATA", NoArg, 503)
             /\ UNCHANGED <<remoteName, tls, from, gotFrom, to, toNil, buffer,
                            data, pc, handlers, hist>>
        ELSE /\ Reply("DATA", NoArg, 354)
             /\ pc' = "data"
             /\ data' = <<>>
             /\ UNCHANGED <<remoteName, tls, from, gotFrom, to, toNil, buffer,
                            handlers, hist>>)

\* Variant: QUIT is answered and the loop goes on.
CmdQUITStaysOpen ==
    /\ pc = "cmd"
    /\ Dispatch("QUIT", NoArg,
        /\ Reply("QUIT", NoArg, 221)
        /\ UNCHANGED <<remoteName, tls, from, gotFrom, to, toNil, buffer,
                       data, pc, handlers, hist>>)

\* case "QUIT": 221, break loop.
CmdQUIT ==
    /\ pc = "cmd"
    /\ Dispatch("QUIT", NoArg,
        /\ Reply("QUIT", NoArg, 221)
        /\ pc' = "closed"
        /\ UNCHANGED <<remoteName, tls, from, gotFrom, to, toNil, buffer, data,
                       handlers, hist>>)

\* Variant: RSET also forgets that the connection is encrypted.
CmdRSETDropsTLS ==
    /\ pc = "cmd"
    /\ Dispatch("RSET", NoArg,
        /\ Reply("RSET", NoArg, 250)
        /\ ResetTx
        /\ tls' = FALSE
        /\ hist' = ResetHist(hist)
        /\ UNCHANGED <<remoteName, data, pc, handlers>>)

CmdRSET ==
    /\ pc = "cmd"
    /\ Dispatch("RSET", NoArg,
        /\ Reply("RSET", NoArg, 250)
        /\ ResetTx
        /\ hist' = ResetHist(hist)
        /\ UNCHANGED <<remoteName, tls, data, pc, handlers>>)

\* Variant: NOOP is accepted without a reply.
CmdNOOPSilent ==
    /\ pc = "cmd"
    /\ Dispatch("NOOP", NoArg,
        /\ Reply("NOOP", NoArg, 0)
        /\ UNCHANGED <<remoteName, tls, from, gotFrom, to, toNil, buffer,
                       data, pc, handlers, hist>>)

CmdNOOP ==
    /\ pc = "cmd"
    /\ Dispatch("NOOP", NoArg,
        /\ Reply("NOOP", NoArg, 250)
        /\ UNCHANGED <<remoteName, tls, from, gotFrom, to, toNil, buffer,
                       data, pc, handlers, hist>>)

\* Variant: a command that is not implemented abandons the transaction.
CmdHELPResets(verb) ==
    /\ pc = "cmd"
    /\ Dispatch(verb, NoArg,
        /\ Reply(verb, NoArg, 502)
        /\ ResetTx
        /\ UNCHANGED <<remoteName, tls, data, pc, handlers, hist>>)

\* case "HELP", "VRFY", "EXPN"
CmdHELP(verb) ==
    /\ pc = "cmd"
    /\ Dispatch(verb, NoArg,
        /\ Reply(verb, NoArg, 502)
        /\ UNCHANGED <<remoteName, tls, from, gotFrom, to, toNil, buffer,
                       data, pc, handlers, hist>>)

CmdOther(verb) ==
    /\ pc = "cmd"
    /\ Dispatch(verb, NoArg,
        /\ Reply(verb, NoArg, 500)
        /\ UNCHANGED <<remoteName, tls, from, gotFrom, to, toNil, buffer,
                       data, pc, handlers, hist>>)

\* Variant: STARTTLS does not test whether TLS is already in use.
CmdSTARTTLSNoTlsCheck ==
    /\ pc = "cmd"
    /\ Dispatch("STARTTLS", NoArg,
        /\ Reply("STARTTLS", NoArg, IF ~srv.TLSConfig THEN 502 ELSE 220)
        /\ pc' = IF srv.TLSConfig THEN "handshake" ELSE pc
        /\ UNCHANGED <<remoteName, tls, from, gotFrom, to, toNil, buffer, data,
                       handlers, hist>>)

\* case "STARTTLS" up to the handshake, which blocks on the connection.
CmdSTARTTLS ==
    /\ pc = "cmd"
    /\ Dispatch("STARTTLS", NoArg,
        /\ Reply("STARTTLS", NoArg, IF ~srv.TLSConfig THEN 502
                             ELSE IF tls THEN 503 ELSE 220)
        /\ pc' = IF srv.TLSConfig /\ ~tls THEN "handshake" ELSE pc
        /\ UNCHANGED <<remoteName, tls, from, gotFrom, to, toNil, buffer, data,
                       handlers, hist>>)

\* Variant: a failed handshake ends the session (`break loop`).
HandshakeFailCloses ==
    /\ pc = "handshake"
    /\ Reply("HANDSHAKE", NoArg, 403)
    /\ pc' = "closed"
    /\ hist' = [hist EXCEPT !.hsFailed = TRUE]
    /\ UNCHANGED <<srv, env, br, sock, remoteName, tls, from, gotFrom, to,
                   toNil, buffer, data, handlers>>

\* tlsConn.Handshake() returned an error: 403, then `break` leaves the
\* switch and the loop reads the next line.
HandshakeFail ==
    /\ pc = "handshake"
    /\ Reply("HANDSHAKE", NoArg, 403)
    /\ pc' = "cmd"
    /\ hist' = [hist EXCEPT !.hsFailed = TRUE]
    /\ UNCHANGED <<srv, env, br, sock, remoteName, tls, from, gotFrom, to,
                   toNil, buffer, data, handlers>>

\* Variant: the upgrade keeps the name given with the earlier HELO/EHLO.
HandshakeOKKeepsName ==
    /\ pc = "handshake"
    /\ Consume("HANDSHAKE", NoArg, 0)
    /\ werr' = FALSE
    /\ tls' = TRUE
    /\ ResetTx
    /\ hist' = [ResetHist(hist) EXCEPT !.upgraded = TRUE]
    /\ pc' = "cmd"
    /\ br' = <<>>
    /\ UNCHANGED <<srv, env, sock, remoteName, data, handlers>>

\* tlsConn.Handshake() succeeded: switch to the TLS connection and discard
\* what the client said before.
HandshakeOK ==
    /\ pc = "handshake"
    /\ Consume("HANDSHAKE", NoArg, 0)
    /\ werr' = FALSE
    /\ tls' = TRUE
    /\ remoteName' = ""
    /\ ResetTx
    /\ hist' = [ResetHist(hist) EXCEPT !.upgraded = TRUE]
    /\ pc' = "cmd"
    /\ br' = <<>>
    /\ UNCHANGED <<srv, env, sock, data, handlers>>

\* Variant: every read error is announced with 421.
CmdReadErrAlways421(kind) ==
    /\ pc = "cmd"
    /\ Reply("READ", [kind |-> kind], 421)
    /\ pc' = "closed"
    /\ UNCHANGED <<srv, env, br, sock, remoteName, tls, from, gotFrom, to,
                   toNil, buffer, data, handlers, hist>>

\* readLine() returned an error: a net.Error whose Timeout() is true, from
\* a deadline of the session or from the connection itself, or another
\* error.  The 421 branch does not look at s.srv.Timeout.
CmdReadErr(kind) ==
    /\ pc = "cmd"
    /\ Reply("READ", [kind |-> kind], IF kind = "timeout" THEN 421 ELSE 0)
    /\ pc' = "closed"
    /\ UNCHANGED <<srv, env, br, sock, remoteName, tls, from, gotFrom, to,
                   toNil, buffer, data, handlers, hist>>

NumLines(d) == Cardinality({i \in DOMAIN d : d[i] = "\n"})

\* Variant: every leading period is removed.
RECURSIVE UnstuffAll(_)
UnstuffAll(line) ==
    IF line # <<>> /\ line[1] = "." THEN UnstuffAll(Tail(line)) ELSE line

\* if line[0] == '.' { line = line[1:] }
Unstuff(line) == IF line[1] = "." THEN Tail(line) ELSE line

\* Variant: a body that reaches the limit is refused.
TooBigAtLimit(n, l) == srv.MaxSize > 0 /\ n + l >= srv.MaxSize

\* Variant: each line is tested by itself.
TooBigPerLine(n, l) == srv.MaxSize > 0 /\ l > srv.MaxSize

\* if s.srv.MaxSize > 0 { if len(data)+len(line) > s.srv.MaxSize
TooBig(n, l) == srv.MaxSize > 0 /\ n + l > srv.MaxSize

\* Variant: the new line is put in front of the body.
PrependLine(d, l) == l \o d

\* data = append(data, line...)
AppendLine(d, l) == d \o l

\* Variant: a size fault leaves what s.br holds for the next read.
DiscardNothing == Rest

\* s.br.Discard(s.br.Buffered())
Discard == <<>>

\* Variant: a body that is refused for its size ends the transaction.
ReadBodyLineResets(line) ==
    /\ pc = "data"
    /\ line \in env.lines
    /\ TakesBody(line)
    /\ NumLines(data) < env.maxLines
    /\ LET l == Unstuff(line) IN
       IF TooBig(Len(data), Len(l))
       THEN /\ Reply("BODY", [line |-> line], 552)
            /\ data' = <<>>
            /\ pc' = "cmd"
            /\ br' = Discard
            /\ hist' = [hist EXCEPT !.raw = <<>>]
            /\ ResetTx
       ELSE /\ Reply("BODY", [line |-> line], 0)
            /\ data' = AppendLine(data, l)
            /\ pc' = pc
            /\ br' = Rest
            /\ hist' = [hist EXCEPT !.raw = Append(@, line)]
            /\ UNCHANGED <<from, gotFrom, to, toNil, buffer>>
    /\ UNCHANGED <<srv, env, sock, remoteName, tls, handlers>>

\* readData(): one line that is not the terminator.
ReadBodyLine(line) ==
    /\ pc = "data"
    /\ line \in env.lines
    /\ TakesBody(line)
    /\ NumLines(data) < env.maxLines
    /\ LET l == Unstuff(line) IN
       IF TooBig(Len(data), Len(l))
       THEN /\ Reply("BODY", [line |-> line], 552)
            /\ data' = <<>>
            /\ pc' = "cmd"
            /\ br' = Discard
            /\ hist' = [hist EXCEPT !.raw = <<>>]
       ELSE /\ Reply("BODY", [line |-> line], 0)
            /\ data' = AppendLine(data, l)
            /\ pc' = pc
            /\ br' = Rest
            /\ hist' = [hist EXCEPT !.raw = Append(@, line)]
    /\ UNCHANGED <<srv, env, sock, remoteName, tls, from, gotFrom, to, toNil,
                   buffer, handlers>>

\* Variant: every read error but a timeout is answered 451 and the session
\* goes on.
DataReadErrAll451(kind) ==
    /\ pc = "data"
    /\ Reply("BODY", [kind |-> kind], IF kind = "timeout" THEN 421 ELSE 451)
    /\ pc' = IF kind = "timeout" THEN "closed" ELSE "cmd"
    /\ data' = <<>>
    /\ hist' = [hist EXCEPT !.raw = <<>>]
    /\ UNCHANGED <<srv, env, br, sock, remoteName, tls, from, gotFrom, to,
                   toNil, buffer, handlers>>

\* readData() returned an error: a timeout (whatever s.srv.Timeout is),
\* another net.Error, or an error that is no net.Error (io.EOF).
DataReadErr(kind) ==
    /\ pc = "data"
    /\ Reply("BODY", [kind |-> kind], IF kind = "timeout" THEN 421
                     ELSE IF kind = "neterr" THEN 0 ELSE 451)
    /\ pc' = IF kind \in {"timeout", "neterr"} THEN "closed" ELSE "cmd"
    /\ data' = <<>>
    /\ hist' = [hist EXCEPT !.raw = <<>>]
    /\ UNCHANGED <<srv, env, br, sock, remoteName, tls, from, gotFrom, to,
                   toNil, buffer, handlers>>

\* readData() read ".\r\n": buffer.Reset(), the two buffer.Write calls and
\* the 250 reply.
ReadBodyEnd(slack1, slack2) ==
    /\ pc = "data"
    /\ slack1 <= env.slack /\ slack2 <= env.slack
    /\ TakesBody(DotLine)
    /\ br' = Rest
    /\ IF to = <<>>
       THEN \* to[0] in makeHeaders: index out of range, the program panics
            /\ Consume("BODY", [line |-> DotLine], 0)
            /\ pc' = "panic"
            /\ UNCHANGED <<buffer, handlers, data, werr>>
       ELSE /\ LET hdr == makeHeaders(to)
                   s0 == [b |-> BufReset(buffer), hs |-> handlers]
                   s1 == BufWrite(s0, hdr, Len(hdr) + slack1)
                   s2 == BufWrite(s1, data, Len(hdr) + Len(data) + slack2)
               IN  /\ buffer' = s2.b
                   /\ handlers' = s2.hs
            /\ Reply("BODY", [line |-> DotLine], 250)
            /\ data' = <<>>
            /\ pc' = "queued"
    /\ UNCHANGED <<srv, env, sock, remoteName, tls, from, gotFrom, to, toNil,
                   hist>>

\* Variant: the session goes on only once no handler is running.
DeliverWaits ==
    /\ pc = "queued"
    /\ handlers = <<>>
    /\ handlers' = IF srv.Handler
                   THEN Append(handlers,
                               [from |-> from, to |-> to, data |-> buffer.bytes,
                                view |-> buffer.bytes, shared |-> TRUE])
                   ELSE handlers
    /\ ResetTx
    /\ hist' = [ResetHist(hist) EXCEPT !.sent = TRUE]
    /\ pc' = "cmd"
    /\ UNCHANGED <<srv, env, br, sock, remoteName, tls, data, last, tick,
                   werr>>

\* go s.srv.Handler(s.conn.RemoteAddr(), from, to, buffer.Bytes()), then the
\* reset for the next mail.
Deliver ==
    /\ pc = "queued"
    /\ handlers' = IF srv.Handler
                   THEN Append(handlers,
                               [from |-> from, to |-> to, data |-> buffer.bytes,
                                view |-> buffer.bytes, shared |-> TRUE])
                   ELSE handlers
    /\ ResetTx
    /\ hist' = [ResetHist(hist) EXCEPT !.sent = TRUE]
    /\ pc' = "cmd"
    /\ UNCHANGED <<srv, env, br, sock, remoteName, tls, data, last, tick,
                   werr>>

\* A read finds s.br empty and fills it with what has arrived: the next k
\* lines the client has sent.  Lines are the unit; a line is never split.
Fill(k) ==
    /\ pc \in {"cmd", "data"}
    /\ br = <<>>
    /\ k \in 1..Len(sock)
    /\ br' = SubSeq(sock, 1, k)
    /\ sock' = SubSeq(sock, k + 1, Len(sock))
    /\ UNCHANGED <<srv, env, remoteName, tls, from, gotFrom, to, toNil,
                   buffer, data, pc, handlers, last, tick, werr, hist>>

\* A handler goroutine returns.
HandlerReturn(i) ==
    /\ i \in DOMAIN handlers
    /\ handlers' = [k \in 1..(Len(handlers) - 1) |->
                      IF k < i THEN handlers[k] ELSE handlers[k + 1]]
    /\ UNCHANGED <<srv, env, br, sock, remoteName, tls, from, gotFrom, to,
                   toNil, buffer, data, pc, last, tick, werr, hist>>

----------------------------------------------------------------------------
(* Specifications *)

\* newSession() and the start of serve() up to the banner.  The listener
\* handed to Serve() decides whether the connection is a *tls.Conn, whatever
\* srv.TLSConfig is; the Flush of the banner may already fail.
InitWith(scenarios) ==
    /\ \E sc \in scenarios :
          /\ srv = IF sc.env.via = "ListenAndServe"
                   THEN ListenAndServe(sc.srv) ELSE sc.srv
          /\ env = sc.env
          /\ sock = sc.env.script
          /\ hist = [mail |-> FALSE, rcpt |-> FALSE, rcptMail |-> FALSE,
                     sent |-> FALSE, hsFailed |-> FALSE, upgraded |-> FALSE,
                     mfrom |-> "", accepted |-> <<>>, dropped |-> FALSE,
                     raw |-> <<>>, cfgTimeout |-> sc.srv.Timeout]
    /\ remoteName = ""
    /\ tls \in BOOLEAN
    /\ from = ""
    /\ gotFrom = FALSE
    /\ to = <<>>
    /\ toNil = TRUE
    /\ buffer = [bytes |-> <<>>, cap |-> 0]
    /\ data = <<>>
    /\ pc = "cmd"
    /\ handlers = <<>>
    /\ last = [verb |-> "BANNER", arg |-> NoArg, code |-> 220,
               rdeadline |-> FALSE, wdeadline |-> DeadlineSet,
               next |-> DeadlineSet]
    /\ tick = 0
    /\ werr \in IF env.wfault THEN BOOLEAN ELSE {FALSE}
    /\ br = <<>>

\* Every TLS configuration without a handler, and a server with TLS and a
\* handler whose client repeats one short transaction, before or after an
\* upgrade.
Scenarios ==
    {[srv |-> Server(tc, tr, 0, FALSE, FALSE, 1),
      env |-> Envelope(Names, Senders, Rcpts, BodyLines, MaxTo, MaxRunning, 0)] :
        tc \in BOOLEAN, tr \in BOOLEAN}
    \cup
    {[srv |-> Server(TRUE, FALSE, 0, TRUE, FALSE, 1),
      env |-> Envelope({"h"}, {"a"}, {"r1"}, {PlainLine}, 1, 1, 0)]}

Init == InitWith(Scenarios)

Next ==
    \/ \E n \in Names : CmdHELO(n)
    \/ \E n \in Names : CmdEHLO(n)
    \/ \E a \in MailArgs : CmdMAIL(a)
    \/ \E a \in RcptArgs, hook \in BOOLEAN : CmdRCPT(a, hook)
    \/ CmdDATA
    \/ CmdQUIT
    \/ CmdRSET
    \/ CmdNOOP
    \/ \E v \in HelpVerbs : CmdHELP(v)
    \/ \E v \in OtherVerbs : CmdOther(v)
    \/ CmdSTARTTLS
    \/ HandshakeFail
    \/ HandshakeOK
    \/ \E k \in {"timeout", "other"} : CmdReadErr(k)
    \/ \E l \in StuffedLines : ReadBodyLine(l)
    \/ \E k \in {"timeout", "neterr", "other"} : DataReadErr(k)
    \/ \E s1, s2 \in 0..CapSlack : ReadBodyEnd(s1, s2)
    \/ Deliver
    \/ \E i \in 1..(MaxRunning + MaxAliasRun) : HandlerReturn(i)

Spec == Init /\ [][Next]_vars

\* The recipient cap: a server with a per-recipient hook whose client keeps
\* sending RCPT for one address, and a TLS server with a handler.
ScenariosCap ==
    {[srv |-> Server(FALSE, FALSE, 0, FALSE, TRUE, 1),
      env |-> Envelope({"h"}, {"a"}, {"r1"}, {PlainLine}, RcptLimit + 1,
                       MaxRunning, 0)],
     [srv |-> Server(TRUE, FALSE, 0, TRUE, FALSE, 1),
      env |-> Envelope({""}, {"a"}, {"r1"}, {PlainLine}, 1, MaxRunning, 0)]}

InitCap == InitWith(ScenariosCap)

SpecCap == InitCap /\ [][Next]_vars

\* Handlers that outlive their transaction: a server with a handler whose
\* client sends further transactions while earlier handlers still run.
ScenariosAlias ==
    {[srv |-> Server(TRUE, FALSE, 0, TRUE, FALSE, 1),
      env |-> OneLineBodies(Envelope({""}, {"a"}, {"r1"}, BodyLines, 1,
                                     MaxAliasRun, CapSlack))]}

InitAlias == InitWith(ScenariosAlias)

SpecAlias == InitAlias /\ [][Next]_vars

\* What the handler is given: a server with a handler whose client varies
\* senders and recipients and sends empty bodies, a server with a handler
\* and a size limit of 3 bytes, and a server with a handler and no limit,
\* both with clients that send lines with leading dots.
ScenariosHandler ==
    {[srv |-> Server(FALSE, FALSE, 0, TRUE, FALSE, 1),
      env |-> Envelope({"h"}, Senders, Rcpts, {}, MaxTo, 1, 0)],
     [srv |-> Server(FALSE, FALSE, 3, TRUE, FALSE, 1),
      env |-> Envelope({""}, {"a"}, {"r1"}, {PlainLine, DotDotX, DotLF}, 1,
                       MaxRunning, 0)],
     [srv |-> Server(TRUE, FALSE, 0, TRUE, FALSE, 1),
      env |-> Envelope({""}, {"a"}, {"r1"}, StuffedLines \ {PlainLine, DotLF},
                       1, 1, 0)]}

InitHandler == InitWith(ScenariosHandler)

SpecHandler == InitHandler /\ [][Next]_vars

\* Connections whose writes may start to fail while reads still succeed: a
\* server with a handler, and a TLS server.
ScenariosFault ==
    {[srv |-> Server(FALSE, FALSE, 0, TRUE, FALSE, 1),
      env |-> Faulty(Envelope({"h"}, {"a"}, {"r1"}, {PlainLine}, 1, 1, 0))],
     [srv |-> Server(TRUE, FALSE, 0, FALSE, FALSE, 1),
      env |-> Faulty(Envelope({""}, {"a"}, {"r1"}, {}, 1, 1, 0))]}

InitFault == InitWith(ScenariosFault)

SpecFault == InitFault /\ [][Next]_vars

\* readLine(): a line up to its "\n", trimmed.
ReadLine ==
    /\ pc = "read"
    /\ last' = [verb |-> "LINE", arg |-> [line |-> TrimSpace(env.wire)],
                code |-> 0, rdeadline |-> last.next, wdeadline |-> FALSE,
                next |-> last.next]
    /\ pc' = "parse"
    /\ UNCHANGED <<srv, env, br, sock, remoteName, tls, from, gotFrom, to,
                   toNil, buffer, data, handlers, tick, werr, hist>>

\* verb, args := s.parseLine(line), up to the case of the switch.
ParseLine ==
    /\ pc = "parse"
    /\ LET p == parseLine(last.arg.line) IN
       last' = [verb |-> SwitchCase(p.verb),
                arg |-> [line |-> last.arg.line, verb |-> p.verb,
                         args |-> p.args],
                code |-> 0, rdeadline |-> last.rdeadline,
                wdeadline |-> FALSE, next |-> last.next]
    /\ pc' = "parsed"
    /\ UNCHANGED <<srv, env, br, sock, remoteName, tls, from, gotFrom, to,
                   toNil, buffer, data, handlers, tick, werr, hist>>

\* One command line from the socket to the switch, for every line of
\* RawLines.
InitParse ==
    /\ srv = Server(FALSE, FALSE, 0, FALSE, FALSE, 1)
    /\ \E l \in RawLines : env = OnWire(Envelope({}, {}, {}, {}, 0, 0, 0), l)
    /\ remoteName = ""
    /\ tls = FALSE
    /\ from = ""
    /\ gotFrom = FALSE
    /\ to = <<>>
    /\ toNil = TRUE
    /\ buffer = [bytes |-> <<>>, cap |-> 0]
    /\ data = <<>>
    /\ pc = "read"
    /\ handlers = <<>>
    /\ last = [verb |-> "BANNER", arg |-> NoArg, code |-> 220,
               rdeadline |-> FALSE, wdeadline |-> DeadlineSet,
               next |-> DeadlineSet]
    /\ tick = 0
    /\ werr = FALSE
    /\ br = <<>>
    /\ sock = <<>>
    /\ hist = [mail |-> FALSE, rcpt |-> FALSE, rcptMail |-> FALSE,
               sent |-> FALSE, hsFailed |-> FALSE, upgraded |-> FALSE,
               mfrom |-> "", accepted |-> <<>>, dropped |-> FALSE,
               raw |-> <<>>, cfgTimeout |-> 1]

NextParse ==
    \/ ReadLine
    \/ ParseLine

SpecParse == InitParse /\ [][NextParse]_vars

\* A server with a size limit of three bytes and clients that send a whole
\* session at once, on a connection without read errors.
ScenariosPipe ==
    {[srv |-> Server(FALSE, FALSE, 3, TRUE, FALSE, 1),
      env |-> Pipelined(Envelope({}, {"a"}, {"r1"}, PipeLines, 2, 1, 0), sc)] :
        sc \in {ScriptTooBig, ScriptMailInBody, ScriptFits}}

InitPipe == InitWith(ScenariosPipe)

NextPipe ==
    \/ \E k \in 1..Len(ScriptTooBig) : Fill(k)
    \/ \E a \in MailArgs : CmdMAIL(a)
    \/ \E a \in RcptArgs, hook \in BOOLEAN : CmdRCPT(a, hook)
    \/ CmdDATA
    \/ CmdQUIT
    \/ CmdRSET
    \/ \E v \in OtherVerbs : CmdOther(v)
    \/ \E l \in PipeLines : ReadBodyLine(l)
    \/ \E s1, s2 \in 0..CapSlack : ReadBodyEnd(s1, s2)
    \/ Deliver
    \/ \E i \in 1..(MaxRunning + MaxAliasRun) : HandlerReturn(i)

SpecPipe == InitPipe /\ [][NextPipe]_vars

\* srv.ConfigureTLS(certFile, keyFile) on the Server of a running session:
\* srv.TLSConfig is set; the session reads it at its next command.
ConfigureTLS ==
    /\ srv' = [srv EXCEPT !.TLSConfig = TRUE]
    /\ UNCHANGED <<env, remoteName, tls, from, gotFrom, to, toNil, buffer,
                   data, pc, handlers, last, tick, werr, br, sock, hist>>

\* srv.ListenAndServe() on the Server of a running session, which Serve()
\* started: a Timeout of 0 becomes five minutes.  The write is not
\* synchronised with the session.  A session that waits in a read has
\* decided on its deadline already, unless the call came between the last
\* write and that decision (rearm); a session that has the handler to start
\* decides after the call; writef() reads the new Timeout at the next reply.
ListenAndServeCalled(rearm) ==
    /\ srv' = ListenAndServe(srv)
    /\ last' = IF pc = "queued" \/ (pc \in {"cmd", "data"} /\ rearm)
               THEN [last EXCEPT !.next = srv'.Timeout > 0]
               ELSE last
    /\ UNCHANGED <<env, remoteName, tls, from, gotFrom, to, toNil, buffer,
                   data, pc, handlers, tick, werr, br, sock, hist>>

\* A client that sends one short message at a time.
ClientTimeout ==
    OneLineBodies(Envelope({"h"}, {"a"}, {"r1"}, {PlainLine}, 1, 1, 0))

\* Servers with and without an idle timeout, started with Serve() and with
\* ListenAndServe(); a handler is configured so that every step of a
\* session occurs, and TLS is configured before serving or while a session
\* runs.
ScenariosTimeout ==
    {[srv |-> Server(TRUE, FALSE, 0, TRUE, FALSE, tmo),
      env |-> e] :
        tmo \in {0, 1},
        e \in {ClientTimeout, ViaListenAndServe(ClientTimeout)}}
    \cup
    {[srv |-> Server(FALSE, FALSE, 0, TRUE, FALSE, 0),
      env |-> ClientTimeout]}

InitTimeout == InitWith(ScenariosTimeout)

NextTimeout ==
    \/ Next
    \/ ConfigureTLS
    \/ \E rearm \in BOOLEAN : ListenAndServeCalled(rearm)

SpecTimeout == InitTimeout /\ [][NextTimeout]_vars

\* The session goroutine against handlers that may never return: serve()
\* goes on by itself after the 250, the handlers and the client owe nothing.
\* A server with a handler whose client sends transaction after
\* transaction, and a TLS server without one.
ScenariosLive ==
    {[srv |-> Server(FALSE, FALSE, 0, TRUE, FALSE, 1),
      env |-> Envelope({"h"}, {"a"}, {"r1"}, {}, 1, MaxAliasRun, 0)],
     [srv |-> Server(TRUE, FALSE, 0, FALSE, FALSE, 1),
      env |-> Envelope({""}, {"a"}, {"r1"}, {PlainLine}, 1, 1, 0)]}

InitLive == InitWith(ScenariosLive)

SpecLive == InitLive /\ [][Next]_vars /\ WF_vars(Deliver)

----------------------------------------------------------------------------
(* Properties *)

\* A step that consumes a command line with verb v.
CmdStep(v) == pc = "cmd" /\ tick' # tick /\ last'.verb = v

\* A step that consumes a command line.
AnyCmdStep == pc = "cmd" /\ tick' # tick /\ last'.verb # "READ"

\* tls_required /\ tls_configured /\ ~tls_active
GateActive == srv.TLSConfig /\ srv.TLSRequired /\ ~tls

SessionUnchanged ==
    UNCHANGED <<remoteName, tls, from, gotFrom, to, buffer, data, pc, handlers>>

\* A step that is a reset point: RSET, HELO, EHLO, a successful STARTTLS
\* handshake, the end of a successful DATA delivery.
ResetStep ==
    \/ /\ pc = "cmd" /\ tick' # tick
       /\ last'.verb \in {"RSET", "HELO", "EHLO"} /\ last'.code = 250
    \/ pc = "handshake" /\ tick' # tick /\ last'.code = 0
    \/ pc = "queued" /\ pc' # pc

\* C1 as stated: DATA is accepted (354, data phase) iff a MAIL and at least
\* one RCPT were accepted since the last reset point; in every other state it
\* replies 503, stays in the command loop and starts no handler.
C1_Original ==
    [][CmdStep("DATA") =>
        /\ (last'.code = 354 /\ pc' = "data") <=> (hist.mail /\ hist.rcpt)
        /\ ~(hist.mail /\ hist.rcpt) =>
              (last'.code = 503 /\ pc' = "cmd" /\ handlers' = handlers)]_vars

\* C1 amended: a DATA that the TLS-required gate does not refuse is accepted
\* (354, data phase) iff a MAIL was accepted since the last reset point and
\* at least one RCPT was accepted since the most recent MAIL command;
\* otherwise it replies 503, stays in the command loop and starts no handler.
C1_DataAccepted ==
    [][CmdStep("DATA") /\ ~GateActive =>
        /\ (last'.code = 354 /\ pc' = "data") <=> (hist.mail /\ hist.rcptMail)
        /\ ~(hist.mail /\ hist.rcptMail) =>
              (last'.code = 503 /\ pc' = "cmd" /\ handlers' = handlers)]_vars

C1_Witness ==
    /\ last.verb = "DATA" /\ last.code = 503
    /\ hist.mail /\ hist.rcpt /\ ~hist.rcptMail

\* C2: every reset point leaves no sender, an empty reverse-path, no
\* recipients and an empty buffer, and once a DATA has ended with 250 a
\* further DATA replies 503 unless a MAIL and a RCPT were accepted since.
C2_ResetPoints ==
    [][/\ ResetStep =>
            (~gotFrom' /\ from' = "" /\ to' = <<>> /\ buffer'.bytes = <<>>)
       /\ (CmdStep("DATA") /\ hist.sent /\ ~(hist.mail /\ hist.rcpt)) =>
            (last'.code = 503 /\ pc' = "cmd")]_vars

C2_Witness ==
    /\ hist.sent /\ last.verb = "DATA" /\ last.code = 503
    /\ ~gotFrom /\ from = "" /\ to = <<>> /\ buffer.bytes = <<>>

\* C3 as stated: RCPT replies 503 iff no MAIL was accepted since the last
\* reset point.
C3_Original ==
    [][CmdStep("RCPT") => (last'.code = 503 <=> ~hist.mail)]_vars

\* C3 amended: a RCPT that the TLS-required gate does not refuse replies 503
\* iff no MAIL was accepted since the last reset point; with the null
\* reverse-path accepted, a valid RCPT (below the cap, not refused by the
\* hook) replies 250 and is appended.
C3_RcptNeedsSender ==
    [][CmdStep("RCPT") /\ ~GateActive =>
        /\ last'.code = 503 <=> ~hist.mail
        /\ (gotFrom /\ from = "" /\ last'.arg.ok /\ last'.arg.hook
              /\ Len(to) < RcptLimit) =>
              (last'.code = 250 /\ to' = Append(to, last'.arg.addr))]_vars

C3_Witness ==
    /\ last.verb = "RCPT" /\ last.code = 250
    /\ gotFrom /\ from = "" /\ to # <<>>

\* C4: in a transaction a valid RCPT is answered 250 (or 550 by the hook)
\* while fewer than 100 recipients are held, and 452 without being appended
\* once 100 are held; the list never holds more than 100.
C4_RcptCap ==
    /\ [](Len(to) <= 100)
    /\ [][CmdStep("RCPT") /\ hist.mail /\ last'.arg.ok =>
            IF Len(to) < 100
            THEN /\ last'.code \in {250, 550}
                 /\ last'.arg.hook =>
                      (last'.code = 250 /\ to' = Append(to, last'.arg.addr))
            ELSE last'.code = 452 /\ to' = to]_vars

C4_Witness ==
    Len(to) = 100 /\ last.verb = "RCPT" /\ last.arg.ok /\ last.code = 452

\* C5: a command is answered 530 exactly when TLS is configured and required,
\* the session is not TLS and the verb is none of NOOP, EHLO, STARTTLS, QUIT;
\* such a command changes no session state; nothing else is answered 530.
C5_TlsGate ==
    [][/\ AnyCmdStep =>
            /\ last'.code = 530 <=>
                  (GateActive /\ last'.verb \notin
                                   {"NOOP", "EHLO", "STARTTLS", "QUIT"})
            /\ last'.code = 530 => SessionUnchanged
       /\ (tick' # tick /\ ~AnyCmdStep) => last'.code # 530]_vars

C5_Witness ==
    last.verb = "HELO" /\ last.code = 530 /\ ~tls /\ ~gotFrom

\* C6 as stated: a failed handshake is answered 403 and the session ends.
C6_Original ==
    [][(pc = "handshake" /\ tick' # tick /\ last'.code = 403) =>
          pc' = "closed"]_vars

\* C6 amended: a failed handshake is answered 403 and the session stays
\* open, back in the command loop where the next line is read and answered.
C6_HandshakeFailure ==
    [][/\ (pc = "handshake" /\ tick' # tick /\ ~tls') =>
            (last'.code = 403 /\ pc' = "cmd")
       /\ (last.verb = "HANDSHAKE" /\ last.code = 403 /\ tick' # tick) =>
            pc = "cmd"]_vars

C6_Witness ==
    hist.hsFailed /\ last.verb = "QUIT" /\ last.code = 221

\* C7: STARTTLS replies 502 when TLS is not configured, 503 when the session
\* is already TLS, both without changing the session, and otherwise 220 with
\* the handshake next.
C7_StartTLS ==
    [][CmdStep("STARTTLS") =>
          IF ~srv.TLSConfig THEN last'.code = 502 /\ SessionUnchanged
          ELSE IF tls THEN last'.code = 503 /\ SessionUnchanged
          ELSE last'.code = 220 /\ pc' = "handshake"]_vars

C7_Witness ==
    hist.upgraded /\ tls /\ last.verb = "STARTTLS" /\ last.code = 503

\* C8: a successful handshake leaves tls set, remoteName empty and no
\* transaction; afterwards RCPT and DATA reply 503 while no MAIL has been
\* accepted, and only HELO/EHLO change remoteName.
C8_Upgrade ==
    [][/\ (pc = "handshake" /\ tick' # tick /\ last'.code = 0) =>
            /\ tls' /\ remoteName' = ""
            /\ ~gotFrom' /\ from' = "" /\ to' = <<>> /\ buffer'.bytes = <<>>
       /\ ((CmdStep("RCPT") \/ CmdStep("DATA")) /\ hist.upgraded /\ ~hist.mail)
            => last'.code = 503
       /\ (hist.upgraded /\ remoteName' # remoteName) =>
            (pc = "cmd" /\ tick' # tick /\ last'.verb \in {"HELO", "EHLO"})]_vars

C8_Witness ==
    /\ hist.upgraded /\ tls /\ remoteName = ""
    /\ last.verb = "RCPT" /\ last.code = 503

\* C9: once tls is true it stays true.
C9_TlsMonotone == [][tls => tls']_vars

C9_Witness ==
    hist.upgraded /\ tls /\ last.verb = "RSET" /\ last.code = 250

\* C10: the bytes a running handler reads are the bytes it was handed.
C10_HandedBytesImmutable ==
    \A i \in DOMAIN handlers : handlers[i].view = handlers[i].data

\* The step that follows a DATA that ended with 250: the handler is started
\* (if there is one) and the transaction is reset.
DeliverStep == pc = "queued" /\ pc' # pc

NewHandler == handlers'[Len(handlers')]

HandlerStarted == Len(handlers') > Len(handlers)

\* C11 as stated: the handler is started exactly once for each DATA that
\* ends with 250, with the reverse-path of the MAIL that opened the
\* transaction and all the recipients accepted in that transaction, in
\* order; it is started at no other point.
C11_Original ==
    [][/\ (DeliverStep /\ srv.Handler) =>
            /\ handlers' = Append(handlers, NewHandler)
            /\ NewHandler.from = hist.mfrom
            /\ NewHandler.to = hist.accepted /\ ~hist.dropped
       /\ HandlerStarted =>
            (srv.Handler /\ pc = "queued" /\ last.verb = "BODY"
               /\ last.code = 250)]_vars

\* C11 amended: the handler is started exactly once for each DATA that ends
\* with 250 (when a handler is configured), with the reverse-path of the
\* most recent accepted MAIL and the recipients accepted since the most
\* recent MAIL command, accepted or rejected, in the order they were
\* accepted; it is never started for a DATA that ends with 503, 552, 451 or
\* 421, nor for a transaction abandoned by a reset or QUIT.
C11_HandlerCall ==
    [][/\ (DeliverStep /\ srv.Handler) =>
            /\ handlers' = Append(handlers, NewHandler)
            /\ NewHandler.from = hist.mfrom
            /\ NewHandler.to = hist.accepted
       /\ (DeliverStep /\ ~srv.Handler) => handlers' = handlers
       /\ HandlerStarted =>
            (srv.Handler /\ pc = "queued" /\ last.verb = "BODY"
               /\ last.code = 250)
       /\ (pc = "data" /\ tick' # tick /\ last'.code = 250) => pc' = "queued"
       /\ pc = "queued" => tick' = tick
       /\ (tick' # tick /\ last'.code \in {503, 552, 451, 421, 221}) =>
            ~HandlerStarted
       /\ (ResetStep /\ ~DeliverStep) => ~HandlerStarted]_vars

C11_Witness ==
    \E i \in DOMAIN handlers :
        handlers[i].from = "a" /\ handlers[i].to = <<"r2", "r1">>

\* C12: the 250 that ends a DATA is written before the handler is started,
\* the session is back in the command loop as soon as it has started it,
\* whether or not earlier handlers have returned, and every command read
\* after that is answered.
C12_HandlerNeverDelays ==
    /\ [][/\ (pc = "data" /\ tick' # tick /\ last'.code = 250) =>
               ~HandlerStarted
          /\ DeliverStep => (pc' = "cmd" /\ last.code = 250)
          /\ AnyCmdStep => last'.code # 0]_vars
    /\ (pc = "queued") ~> (pc = "cmd")

C12_Witness ==
    /\ Len(handlers) = 2
    /\ pc = "closed" /\ last.verb = "QUIT" /\ last.code = 221

\* The received lines ls in order, each without its first byte when that
\* byte is a period.
RECURSIVE Transparent(_)
Transparent(ls) ==
    IF ls = <<>> THEN <<>>
    ELSE LET l == Head(ls)
         IN  (IF l[1] = "." THEN SubSeq(l, 2, Len(l)) ELSE l)
                 \o Transparent(Tail(ls))

\* C13: the bytes handed to the handler are the Received header followed by
\* the body lines received, in order, each without its first byte when that
\* byte is a period, and without the terminating ".\r\n"; only a line that
\* is exactly ".\r\n" ends the body.
C13_BodyBytes ==
    [][/\ (DeliverStep /\ srv.Handler) =>
            NewHandler.data =
                <<[received |-> remoteName, for |-> hist.accepted[1]]>>
                    \o Transparent(hist.raw)
       /\ (pc = "data" /\ tick' # tick /\ last'.code = 250) =>
            (last'.arg.line = <<".", "\r", "\n">> /\ hist'.raw = hist.raw)
       /\ (pc = "data" /\ tick' # tick /\ last'.code = 0 /\ pc' = "data") =>
            (last'.arg.line # <<".", "\r", "\n">>
               /\ hist'.raw = Append(hist.raw, last'.arg.line))]_vars

\* A handler that was given a body of two lines, "..\r\n" and then
\* "..x\r\n".
C13_Witness ==
    \E i \in DOMAIN handlers :
        handlers[i].data =
            <<[received |-> "", for |-> "r1"], ".", "\r", "\n",
              ".", "x", "\r", "\n">>

\* A step of the data phase that consumes a read error.
DataErrStep ==
    pc = "data" /\ tick' # tick /\ "kind" \in DOMAIN last'.arg

\* C14 as stated: every command line is answered once, and nothing else is
\* written before the next command line is read.
C14_Original ==
    [][/\ AnyCmdStep => last'.code # 0
       /\ (tick' # tick /\ pc # "cmd" /\ pc' # "closed") =>
            last'.code = 0]_vars

\* C14 amended: every command line read is answered with exactly one reply
\* in the step that consumes it.  Two commands are answered a second time
\* before the next command line is read: a DATA answered 354 when the data
\* phase ends (250 after the terminator, 552 or 451 back in the command
\* loop, 421 or nothing when the session closes), and a STARTTLS answered
\* 220 when the handshake fails (403).  A body line that does not end the
\* data phase and a handshake that succeeds are not answered, and nothing
\* else is written but the 421 of a read that timed out.
C14_OneReplyPerCommand ==
    [][/\ AnyCmdStep =>
            last'.code \in {220, 221, 250, 354, 452, 500, 501, 502, 503, 530,
                            550, 552}
       /\ (pc = "cmd" /\ tick' # tick /\ last'.verb = "READ") =>
            (last'.code \in {0, 421} /\ pc' = "closed")
       /\ (pc # "data" /\ pc' = "data") =>
            (CmdStep("DATA") /\ last'.code = 354)
       /\ (CmdStep("DATA") /\ last'.code = 354) => pc' = "data"
       /\ (pc = "data" /\ tick' # tick) =>
            \/ pc' = "data" /\ last'.code = 0
            \/ pc' = "queued" /\ last'.code = 250
            \/ pc' = "cmd" /\ last'.code \in {451, 552}
            \/ pc' = "closed" /\ last'.code \in {0, 421}
       /\ (pc # "handshake" /\ pc' = "handshake") =>
            (CmdStep("STARTTLS") /\ last'.code = 220)
       /\ (CmdStep("STARTTLS") /\ last'.code = 220) => pc' = "handshake"
       /\ (pc = "handshake" /\ tick' # tick) =>
            /\ pc' = "cmd"
            /\ \/ last'.code = 403 /\ ~tls'
               \/ last'.code = 0 /\ tls'
       /\ pc \in {"queued", "closed"} => (tick' = tick /\ last' = last)]_vars

\* A session whose STARTTLS was answered 220 and 403 and whose DATA was
\* answered 354 and 250.
C14_Witness ==
    /\ hist.hsFailed /\ pc = "queued"
    /\ last.verb = "BODY" /\ last.code = 250

\* C15: QUIT is answered 221 in every state of the command loop and the
\* session closes: no later line is read or answered, and the open
\* transaction is dropped without starting the handler.
C15_Quit ==
    [][/\ CmdStep("QUIT") =>
            (last'.code = 221 /\ pc' = "closed" /\ handlers' = handlers)
       /\ pc = "closed" => (tick' = tick /\ last' = last /\ ~HandlerStarted)]_vars

C15_Witness ==
    /\ pc = "closed" /\ last.verb = "QUIT" /\ last.code = 221
    /\ srv.Handler /\ gotFrom /\ to # <<>> /\ handlers = <<>>

\* C16: while waiting for a command line, a read timeout is answered with
\* one 421 and any other read error with nothing; both close the session
\* and no further line is consumed.
C16_CommandReadError ==
    [][/\ (pc = "cmd" /\ tick' # tick /\ last'.verb = "READ") =>
            /\ pc' = "closed"
            /\ last'.code = IF last'.arg.kind = "timeout" THEN 421 ELSE 0
            /\ ~HandlerStarted
       /\ pc = "closed" => (tick' = tick /\ last' = last)]_vars

C16_Witness ==
    /\ pc = "closed" /\ last.verb = "READ" /\ last.arg.kind = "other"
    /\ last.code = 0 /\ gotFrom /\ to # <<>>

\* C17 as stated: in the data phase a read timeout is answered 421 and the
\* session closes; every other read error is answered 451 and the session
\* stays open, back in the command loop.
C17_Original ==
    [][DataErrStep =>
          IF last'.arg.kind = "timeout"
          THEN last'.code = 421 /\ pc' = "closed"
          ELSE last'.code = 451 /\ pc' = "cmd"]_vars

\* C17 amended: in the data phase a read timeout is answered 421 and the
\* session closes; any other read error that is a net.Error closes the
\* session without a reply; a read error that is no net.Error (end of
\* stream) is answered 451 and the session stays open, back in the command
\* loop with the transaction as it was; none of them starts the handler.
C17_DataReadError ==
    [][DataErrStep =>
          /\ last'.arg.kind = "timeout" =>
                (last'.code = 421 /\ pc' = "closed")
          /\ last'.arg.kind = "neterr" =>
                (last'.code = 0 /\ pc' = "closed")
          /\ last'.arg.kind = "other" =>
                (last'.code = 451 /\ pc' = "cmd")
          /\ UNCHANGED <<from, gotFrom, to>>
          /\ ~HandlerStarted]_vars

C17_Witness ==
    /\ pc = "cmd" /\ last.verb = "BODY" /\ last.code = 451
    /\ gotFrom /\ to # <<>>

\* C18: once a reply could not be written, no further line is processed and
\* no handler is started.
C18_WriteErrorCloses ==
    [][werr => (tick' = tick /\ ~HandlerStarted)]_vars

\* A step of the data phase that consumes a line.
BodyLineStep ==
    pc = "data" /\ tick' # tick /\ "line" \in DOMAIN last'.arg

\* C19: with MaxSize > 0 a line that would take the body, after removing its
\* leading period, beyond MaxSize ends the data phase with 552, the session
\* open and no handler started; a body of up to exactly MaxSize bytes is
\* accepted with 250; no body handed to a handler (after the Received
\* header) is longer than MaxSize; with MaxSize = 0 no body is refused.
C19_MaxSize ==
    /\ [](\A i \in DOMAIN handlers :
            srv.MaxSize > 0 => Len(handlers[i].data) - 1 <= srv.MaxSize)
    /\ [][BodyLineStep =>
            LET l == last'.arg.line
                n == IF l[1] = "." THEN Len(l) - 1 ELSE Len(l)
            IN  IF l = <<".", "\r", "\n">>
                THEN last'.code = 250 /\ pc' = "queued"
                ELSE IF srv.MaxSize > 0 /\ Len(data) + n > srv.MaxSize
                THEN /\ last'.code = 552 /\ pc' = "cmd"
                     /\ handlers' = handlers
                ELSE /\ last'.code = 0 /\ pc' = "data"
                     /\ Len(data') = Len(data) + n]_vars

\* A line of one byte is refused because of the three bytes read before it,
\* which were accepted into the body as they reached MaxSize exactly.
C19_Witness ==
    /\ srv.MaxSize = 3
    /\ pc = "cmd" /\ last.verb = "BODY" /\ last.code = 552
    /\ last.arg.line = <<".", "\n">>

\* A body of exactly MaxSize bytes was handed to a handler.
C19_AtLimit ==
    /\ srv.MaxSize = 3
    /\ \E i \in DOMAIN handlers : Len(handlers[i].data) - 1 = srv.MaxSize

\* C20: a MAIL with the parameter SIZE=n is answered 552 when MaxSize > 0
\* and n > MaxSize, and otherwise 250 with the sender recorded; any other
\* parameter is answered 501; a MAIL answered 501 or 552 leaves gotFrom as
\* it was.  A number too large for an int is larger than every MaxSize.
C20_MailSize ==
    [][(CmdStep("MAIL") /\ ~GateActive) =>
          LET a == last'.arg
              over == a.kind = "overflow" \/ a.size > srv.MaxSize
          IN  /\ a.kind \in {"size", "overflow"} =>
                    IF srv.MaxSize > 0 /\ over
                    THEN last'.code = 552
                    ELSE last'.code = 250 /\ gotFrom' /\ from' = a.addr
              /\ a.kind = "badparam" => last'.code = 501
              /\ last'.code \in {501, 552} => gotFrom' = gotFrom]_vars

\* C21: a RCPT answered 501, 452 or 550 leaves the sender and the
\* recipients accepted so far as they were, and a DATA that follows it with
\* recipients held is accepted with those recipients.
C21_RejectedRcptKeeps ==
    [][/\ (CmdStep("RCPT") /\ last'.code \in {501, 452, 550}) =>
            UNCHANGED <<from, gotFrom, to>>
       /\ (CmdStep("DATA") /\ last.verb = "RCPT"
             /\ last.code \in {501, 452, 550} /\ to # <<>>) =>
            (last'.code = 354 /\ pc' = "data" /\ to' = to)]_vars

C21_Witness ==
    /\ last.verb = "RCPT" /\ last.code = 501
    /\ gotFrom /\ Len(to) = 2

\* C22: in a transaction, a well-formed RCPT below the cap is answered 250
\* and appended iff the hook returns true or there is no hook, and 550
\* without being appended iff the hook returns false; a DATA in a
\* transaction none of whose RCPT was accepted is answered 503.
C22_RcptHook ==
    [][/\ (CmdStep("RCPT") /\ gotFrom /\ last'.arg.ok /\ Len(to) < 100) =>
            IF srv.HandlerRcpt /\ ~last'.arg.hook
            THEN last'.code = 550 /\ to' = to
            ELSE last'.code = 250 /\ to' = Append(to, last'.arg.addr)
       /\ (CmdStep("DATA") /\ ~hist.rcpt) => last'.code = 503]_vars

C22_Witness ==
    /\ srv.HandlerRcpt /\ last.verb = "RCPT" /\ last.arg.ok
    /\ ~last.arg.hook /\ last.code = 550 /\ gotFrom /\ to = <<>>

\* C23: with the gate inactive and whatever was said before, NOOP is
\* answered 250, HELP, VRFY and EXPN 502, an unknown or empty verb 500, and
\* none of them changes the sender, the recipients, remoteName or tls.
C23_SimpleCommands ==
    [][(AnyCmdStep /\ ~GateActive) =>
          /\ last'.verb = "NOOP" => last'.code = 250
          /\ last'.verb \in {"HELP", "VRFY", "EXPN"} => last'.code = 502
          /\ last'.verb \in {"TEST", ""} => last'.code = 500
          /\ last'.verb \in {"NOOP", "HELP", "VRFY", "EXPN", "TEST", ""} =>
                UNCHANGED <<from, gotFrom, to, remoteName, tls, pc>>]_vars

C23_Witness ==
    /\ last.verb = "VRFY" /\ last.code = 502
    /\ remoteName = "" /\ gotFrom /\ to # <<>>

\* C24: whenever no sender is held, no recipient is held and the buffer is
\* empty.
C24_NoSenderNoRcpt ==
    ~gotFrom => (to = <<>> /\ buffer.bytes = <<>>)

C24_Witness ==
    /\ ~gotFrom /\ hist.sent /\ last.verb = "RCPT" /\ last.code = 503

\* The lines of a response, each without its "\n"; what follows the last
\* "\n" is the last element.
RECURSIVE SplitLF(_, _)
SplitLF(cells, cur) ==
    IF cells = <<>> THEN <<cur>>
    ELSE IF Head(cells) = "\n" THEN <<cur>> \o SplitLF(Tail(cells), <<>>)
    ELSE SplitLF(Tail(cells), Append(cur, Head(cells)))

\* An EHLO that is answered with the capability list.
EhloStep == CmdStep("EHLO") /\ last'.code = 250

EhloLines == SplitLF(last'.arg.resp, <<>>)

\* C25: the EHLO response lists STARTTLS iff TLS is configured and the
\* session is not TLS; after a successful upgrade it never does.
C25_StartTLSListed ==
    [][EhloStep =>
          LET listed == \E i \in DOMAIN EhloLines :
                            EhloLines[i] = <<"250-", "STARTTLS", "\r">>
          IN  /\ listed <=> (srv.TLSConfig /\ ~tls)
              /\ hist.upgraded => ~listed]_vars

C25_Witness ==
    /\ hist.upgraded /\ tls /\ last.verb = "EHLO" /\ last.code = 250
    /\ \A i \in DOMAIN last.arg.resp : last.arg.resp[i] # "STARTTLS"

\* C26: the EHLO response is at least three lines, each ended by "\r\n";
\* every line but the last starts with "250-", the last with "250 ", and
\* there is no blank line before, between or after them.
C26_EhloShape ==
    [][EhloStep =>
          LET ls == EhloLines
              n == Len(ls) - 1
          IN  /\ ls[Len(ls)] = <<>>
              /\ n >= 3
              /\ \A i \in 1..n :
                    /\ Len(ls[i]) >= 3 /\ ls[i][Len(ls[i])] = "\r"
                    /\ ls[i][1] = IF i < n THEN "250-" ELSE "250 "]_vars

C26_Witness ==
    /\ last.verb = "EHLO" /\ last.code = 250 /\ ~srv.TLSConfig
    /\ Len(SplitLF(last.arg.resp, <<>>)) = 4

\* C27 as stated: a server configured with idle timeout 0 never replies
\* 421, however it is started.
C27_Original == hist.cfgTimeout = 0 => last.code # 421

\* A read, a handshake result or a write of the session.
IOStep == tick' # tick

\* C27: the session decides on a read deadline before it waits for a line
\* and on a write deadline when it writes a reply, each time by
\* srv.Timeout > 0 at that moment; so no deadline is set for as long as
\* Timeout is 0, and a line read without a deadline may be answered with
\* one.  Timeout is 0 only on a server that was configured with 0 and on
\* which ListenAndServe() has not been called: ListenAndServe() replaces a
\* Timeout of 0 by five minutes.  A 421 is written exactly for a read that
\* failed with a timeout error and closes the session, whatever Timeout is.
C27_TimeoutZero ==
    /\ [](srv.Timeout = 0 =>
            (~last.rdeadline /\ ~last.wdeadline /\ ~last.next))
    /\ [](srv.Timeout = 0 => (hist.cfgTimeout = 0 /\ env.via = "Serve"))
    /\ [](srv.Timeout \in {hist.cfgTimeout, 5})
    /\ [](last.code = 421 =>
            /\ last.verb \in {"READ", "BODY"}
            /\ last.arg = [kind |-> "timeout"]
            /\ pc = "closed")
    /\ [][/\ IOStep => (last'.rdeadline <=> last.next)
          /\ (IOStep /\ last'.code # 0) =>
               (last'.wdeadline <=> srv.Timeout > 0)
          /\ (IOStep /\ pc' \in {"cmd", "data"}) =>
               (last'.next <=> srv.Timeout > 0)
          /\ (IOStep /\ last'.arg = [kind |-> "timeout"]) =>
               last'.code = 421
          /\ srv' # srv =>
               /\ srv' \in {[srv EXCEPT !.Timeout = 5],
                             [srv EXCEPT !.TLSConfig = TRUE]}
               /\ last' \in {last, [last EXCEPT !.next = TRUE]}
               /\ UNCHANGED <<pc, tick, tls, werr>>]_vars

\* A session of a server started with Serve() and Timeout 0 that never set
\* a deadline and is closed with 421.
C27_Witness ==
    /\ hist.cfgTimeout = 0 /\ env.via = "Serve" /\ srv.Timeout = 0
    /\ hist.sent /\ pc = "closed" /\ last.verb = "READ" /\ last.code = 421
    /\ ~last.rdeadline /\ ~last.wdeadline

\* ListenAndServe() was called while the session waited for a line: the
\* line was read without a deadline and answered with one.
C27_ReadWithoutWriteWith ==
    /\ hist.cfgTimeout = 0 /\ env.via = "Serve" /\ srv.Timeout = 5
    /\ last.verb = "NOOP" /\ last.code = 250
    /\ ~last.rdeadline /\ last.wdeadline /\ last.next

\* A line parsed into a verb and an argument.
ParseStep == pc = "parse" /\ pc' = "parsed"

\* C28: parseLine splits the trimmed line at its first space; the verb is
\* the upper-cased prefix, the argument the remainder without the whitespace
\* around it and in its own case; without a space the verb is the whole
\* upper-cased line and the argument is empty.  "mail", "Mail" and "MAIL"
\* select the same case of the switch.
C28_ParseLine ==
    [][ParseStep =>
          LET line == last.arg.line
              v == last'.arg.verb
              a == last'.arg.args
              sps == {i \in DOMAIN line : line[i] = " "}
          IN  /\ line = TrimSpace(env.wire)
              /\ sps = {} =>
                    /\ Len(v) = Len(line)
                    /\ \A i \in DOMAIN v : v[i] = UpperRune(line[i])
                    /\ a = <<>>
              /\ sps # {} =>
                    LET idx == CHOOSE i \in sps : \A j \in sps : i <= j
                        rest == SubSeq(line, idx + 1, Len(line))
                    IN  /\ Len(v) = idx - 1
                        /\ \A i \in DOMAIN v : v[i] = UpperRune(line[i])
                        /\ \E j, k \in 0..Len(rest) :
                              /\ a = SubSeq(rest, j + 1, k)
                              /\ \A m \in 1..j : IsSpace(rest[m])
                              /\ \A m \in (k + 1)..Len(rest) : IsSpace(rest[m])
                        /\ a # <<>> => ~IsSpace(a[1]) /\ ~IsSpace(a[Len(a)])
              /\ (sps # {} \/ Len(line) = 4) =>
                    LET n == IF sps = {} THEN 4
                             ELSE (CHOOSE i \in sps : \A j \in sps : i <= j) - 1
                        w == SubSeq(line, 1, n)
                    IN  /\ w \in {<<"m", "a", "i", "l">>, <<"M", "a", "i", "l">>,
                                   <<"M", "A", "I", "L">>} <=> last'.verb = "MAIL"
                        /\ w \in {<<"n", "o", "o", "p">>, <<"N", "O", "O", "P">>}
                              <=> last'.verb = "NOOP"]_vars

C28_Witness ==
    /\ pc = "parsed" /\ last.verb = "MAIL"
    /\ env.wire = <<"M", "a", "i", "l", " ", " ", "X", " ", "x", "\r", "\n">>
    /\ last.arg.verb = <<"M", "A", "I", "L">>
    /\ last.arg.args = <<"X", " ", "x">>

\* The command answered last was a MAIL that was refused.
AfterRejectedMail == last.verb = "MAIL" /\ last.code \in {501, 552}

\* C29: a MAIL refused with 501 or 552 in an open transaction keeps gotFrom
\* and the reverse-path of the earlier MAIL and empties the recipient list;
\* a DATA right after it is answered 503, a valid RCPT right after it is
\* accepted with 250 under the earlier sender.
C29_RejectedMail ==
    [][/\ (CmdStep("MAIL") /\ gotFrom /\ last'.code \in {501, 552}) =>
            (gotFrom' /\ from' = from /\ to' = <<>>)
       /\ (CmdStep("DATA") /\ AfterRejectedMail /\ gotFrom) =>
            (last'.code = 503 /\ pc' = "cmd")
       /\ (CmdStep("RCPT") /\ AfterRejectedMail /\ gotFrom /\ last'.arg.ok
              /\ (srv.HandlerRcpt => last'.arg.hook)) =>
            /\ last'.code = 250
            /\ to' = <<last'.arg.addr>>
            /\ from' = from /\ from = hist.mfrom /\ gotFrom']_vars

C29_Witness ==
    /\ last.verb = "RCPT" /\ last.code = 250 /\ hist.dropped
    /\ gotFrom /\ from = "a" /\ to = <<"r1">>

\* A MAIL argument that is accepted: a reverse-path without parameters, or
\* with a SIZE within the limit.
ValidMail(arg) ==
    \/ arg.kind = "noparam"
    \/ arg.kind = "size" /\ ~(srv.MaxSize > 0 /\ arg.size > srv.MaxSize)

\* C30: a valid MAIL in an open transaction is answered 250, replaces the
\* reverse-path and discards the recipients accepted so far; a handler is
\* started with the recipients accepted after the last MAIL only.
C30_MailReplaces ==
    [][/\ (CmdStep("MAIL") /\ gotFrom /\ ValidMail(last'.arg)) =>
            /\ last'.code = 250
            /\ gotFrom' /\ from' = last'.arg.addr
            /\ to' = <<>> /\ hist'.accepted = <<>>
       /\ CmdStep("MAIL") => last'.code # 503
       /\ (CmdStep("RCPT") /\ last'.code = 250) =>
            (to' = Append(to, last'.arg.addr) /\ to = hist.accepted)
       /\ (DeliverStep /\ srv.Handler) =>
            (NewHandler.from = from /\ NewHandler.to = to
               /\ to = hist.accepted)]_vars

C30_Witness ==
    /\ srv.Handler /\ last.verb = "MAIL" /\ last.code = 250
    /\ last.arg.addr = "a" /\ gotFrom /\ from = "a"
    /\ hist.rcpt /\ ~hist.dropped /\ to = <<>>

\* The data phase just ended with 552 or 451.
AfterFailedData == last.verb = "BODY" /\ last.code \in {552, 451}

\* C31: a data phase that ends with 552 or 451 leaves the sender and the
\* accepted recipients as they were, and a DATA read right after it is
\* answered 354.
C31_FailedDataKeeps ==
    [][/\ (pc = "data" /\ tick' # tick /\ last'.code \in {552, 451}) =>
            /\ UNCHANGED <<from, gotFrom, to>>
            /\ gotFrom /\ to # <<>> /\ pc' = "cmd"
       /\ (CmdStep("DATA") /\ AfterFailedData) =>
            (last'.code = 354 /\ pc' = "data" /\ UNCHANGED <<from, gotFrom, to>>)]_vars

C31_Witness ==
    /\ pc = "cmd" /\ last.verb = "BODY" /\ last.code = 552
    /\ gotFrom /\ from = "a" /\ to = <<"r1">>

\* A step that reads a line of a pipelining client as a command.
PipeCmdStep == AnyCmdStep /\ env.script # <<>>

\* C32: a size fault empties s.br, whatever it holds, and reads nothing more
\* from the connection: the data phase is over although the terminator has
\* not been read.  Every line read afterwards is answered as the command it
\* spells: a RSET, a MAIL or a QUIT among the body lines is executed, and the
\* terminator itself is answered 500.
C32_SizeFaultInput ==
    [][/\ (BodyLineStep /\ last'.code = 552) =>
            (br' = <<>> /\ sock' = sock /\ pc' = "cmd")
       /\ PipeCmdStep =>
            /\ br # <<>> /\ br' = Tail(br) /\ sock' = sock
            /\ last'.verb = LineVerb(Head(br))
            /\ Head(br) = RsetLine =>
                  (last'.code = 250 /\ ~gotFrom' /\ to' = <<>>)
            /\ Head(br) = MailLine =>
                  (last'.code = 250 /\ gotFrom' /\ from' = "a" /\ to' = <<>>)
            /\ Head(br) = QuitLine => (last'.code = 221 /\ pc' = "closed")
            /\ Head(br) = DotLine => (last'.code = 500 /\ pc' = "cmd")]_vars

C32_Witness ==
    /\ env.script = ScriptTooBig /\ ~hist.sent
    /\ last.verb = "RSET" /\ last.code = 250 /\ ~gotFrom
    /\ br \o sock = <<DotLine, QuitLine>>

\* A handshake that failed.
HandshakeFailStep == pc = "handshake" /\ tick' # tick /\ last'.code = 403

\* C33: a failed handshake leaves tls false, keeps s.br and a write error of
\* s.bw, and leaves remoteName, the sender and the recipients as they were;
\* with TLSRequired the next command outside the allowed ones is still
\* answered 530.
C33_FailedHandshakeFrame ==
    [][/\ HandshakeFailStep =>
            /\ ~tls /\ ~tls'
            /\ UNCHANGED <<remoteName, from, gotFrom, to, buffer, br>>
            /\ werr => werr'
            /\ GateActive' = GateActive
       /\ (AnyCmdStep /\ last.verb = "HANDSHAKE" /\ last.code = 403
              /\ srv.TLSRequired /\ last'.verb \notin allowedCmds) =>
            (last'.code = 530 /\ SessionUnchanged)]_vars

C33_Witness ==
    /\ last.verb = "HANDSHAKE" /\ last.code = 403 /\ ~tls /\ pc = "cmd"
    /\ remoteName = "h" /\ gotFrom /\ from = "a" /\ to = <<"r1", "r2">>

\* No line has been read since the connection was accepted, or since it
\* was upgraded to TLS.
Fresh ==
    \/ last.verb = "BANNER"
    \/ last.verb = "HANDSHAKE" /\ last.code = 0

\* C34 as stated: on a fresh connection a valid MAIL is accepted.
C34_Original ==
    [][(CmdStep("MAIL") /\ Fresh /\ ValidMail(last'.arg)) =>
          last'.code = 250]_vars

\* C34 amended: where the TLS-required gate is not active, a connection
\* that is fresh or just upgraded has an empty remoteName and accepts a
\* valid MAIL; RCPT, DATA and the body are accepted on the state of the
\* transaction alone, none of them touches remoteName, and the header of
\* the message handed to the handler carries remoteName as it is.
C34_NoHeloNeeded ==
    /\ [](Fresh => (remoteName = "" /\ pc = "cmd" /\ ~gotFrom))
    /\ [][/\ (CmdStep("MAIL") /\ Fresh /\ ~GateActive /\ ValidMail(last'.arg)) =>
               (last'.code = 250 /\ gotFrom')
          /\ (CmdStep("MAIL") /\ Fresh /\ GateActive) => last'.code = 530
          /\ (CmdStep("RCPT") /\ gotFrom /\ last'.arg.ok /\ Len(to) < RcptLimit
                 /\ (srv.HandlerRcpt => last'.arg.hook)) => last'.code = 250
          /\ (CmdStep("DATA") /\ gotFrom /\ to # <<>>) =>
               (last'.code = 354 /\ pc' = "data")
          /\ (pc = "data" /\ tick' # tick
                 /\ last'.arg = [line |-> <<".", "\r", "\n">>]) =>
               (last'.code = 250 /\ pc' = "queued")
          /\ (DeliverStep /\ srv.Handler) =>
               (HandlerStarted /\ NewHandler.data[1].received = remoteName)
          /\ (tick' # tick /\ last'.verb \in {"MAIL", "RCPT", "DATA", "BODY"}) =>
               remoteName' = remoteName
          /\ DeliverStep => remoteName' = remoteName]_vars

\* A message delivered to the handler on a connection that was upgraded
\* by STARTTLS and has not said HELO or EHLO since.
C34_Witness ==
    /\ srv.Handler /\ env.names = {"h"}
    /\ hist.upgraded /\ tls /\ remoteName = ""
    /\ pc = "cmd" /\ last.verb = "BODY" /\ last.code = 250
    /\ Len(handlers) = 1
    /\ handlers[1].data[1] = [received |-> "", for |-> "r1"]

\* The terminator of a body has been read.
BodyEndStep ==
    pc = "data" /\ tick' # tick /\ last'.arg = [line |-> <<".", "\r", "\n">>]

\* C35 as stated: the header names the first recipient accepted in the
\* current transaction, so none accepted in it has been dropped.
C35_Original == [][BodyEndStep => ~hist.dropped]_vars

\* C35 amended: `to` is nil exactly when it has no element, so a DATA that
\* is accepted has a recipient, makeHeaders never reads past the end of
\* the list, and the header names the first element of the list: the first
\* recipient accepted since the most recent MAIL command, accepted or
\* rejected.
C35_HeaderRecipient ==
    /\ [](toNil <=> to = <<>>)
    /\ [](pc # "panic")
    /\ [](pc \in {"data", "queued"} => to # <<>>)
    /\ [][BodyEndStep =>
             /\ to # <<>> /\ hist.accepted # <<>>
             /\ last'.code = 250
             /\ buffer'.bytes[1].for = to[1]
             /\ to[1] = hist.accepted[1]]_vars

C35_Witness ==
    /\ pc = "queued" /\ hist.dropped /\ to = <<"r2", "r1">>
    /\ buffer.bytes[1].for = "r2"

====
